---- MODULE Spec2Model ----
(***************************************************************************)
(* Model of yahtzee.ipynb: the turn simulator play_one_round_of_yahtzee    *)
(* (with roll_dice and find_what_to_keep) and the Monte Carlo loop of      *)
(* cells 5/6 followed by np.mean and the expected-turns cell 7.            *)
(*                                                                         *)
(* Numbers that are floats in the notebook are kept exact: a float is a    *)
(* record [kind, num, den] (kind "num" for num/den, "nan" for NaN, "inf",  *)
(* "unbound" for a name that has not been assigned yet).                   *)
(***************************************************************************)
EXTENDS Integers, Sequences, FiniteSets, TLC

\* ---------------------------------------------------------------- bounds
\* largest number of trials n the loop is run with
MaxN == 2
\* the loop is also run with the non-positive trial counts 0, -1, ..., -MaxNeg
MaxNeg == 1

\* ------------------------------------------------------ program constants
\* roll_dice: roll_size = 5 - len(previous_roll)
NumDice == 5
\* np.random.randint(1, 7, ...): faces 1..6
NumFaces == 6
\* while roll_count < 3 ...
MaxRolls == 3
\* ... and mode_count < 5 / if mode_count == 5
YahtzeeCount == 5

Faces == 1..NumFaces

VARIABLES
    n,              \* the trial count of range(n) (1000 / 1000000 in the cells)
    it,             \* how many values the range iterator has produced
    yahtzees,       \* the list of outcomes
    p_hat,          \* value of np.mean(yahtzees)
    expected_turns, \* value of cell 7
    raised,         \* the exception raised so far ("none" when none)
    previous_roll,  \* play_one_round_of_yahtzee local
    roll,           \* play_one_round_of_yahtzee local (<<>> while it holds no live value)
    mode_count,     \* play_one_round_of_yahtzee local
    keep,           \* play_one_round_of_yahtzee local (<<>> unbound, <<f>> bound)
    roll_count,     \* play_one_round_of_yahtzee local
    result,         \* the value returned by the call (<<>> outside a return)
    rigged,         \* TRUE when the dice source is the cycling test double
    pos,            \* position of the cycling source (0 when not rigged)
    pc

vars == <<n, it, yahtzees, p_hat, expected_turns, raised, previous_roll, roll,
          mode_count, keep, roll_count, result, rigged, pos, pc>>

estVars == <<n, it, yahtzees, p_hat, expected_turns, raised>>
turnVars == <<previous_roll, roll, mode_count, keep, roll_count, result>>

\* ------------------------------------------------------------- floats
Unbound == [kind |-> "unbound", num |-> 0, den |-> 1]
NaN == [kind |-> "nan", num |-> 0, den |-> 1]
Inf == [kind |-> "inf", num |-> 0, den |-> 1]
Num(a, b) == [kind |-> "num", num |-> a, den |-> b]

RECURSIVE SumSeq(_)
SumSeq(s) == IF s = <<>> THEN 0 ELSE Head(s) + SumSeq(Tail(s))

\* np.mean of a Python list: sum / len; NaN (with a warning, no exception)
\* for the empty list
np_mean_zero_on_empty(ys) ==
    IF Len(ys) = 0 THEN Num(0, 1) ELSE Num(SumSeq(ys), Len(ys))
np_mean(ys) == IF Len(ys) = 0 THEN NaN ELSE Num(SumSeq(ys), Len(ys))

\* 1 / x for a float literal x = a/b, b # 0, a # 0
Reciprocal(x) == Num(x.den, x.num)

\* cell 7: 1 / 0.046 (the literal, not the variable holding np.mean)
P_LITERAL == Num(46, 1000)
cell7_value_from_p_hat ==
    IF p_hat.kind = "num" /\ p_hat.num # 0 THEN Reciprocal(p_hat) ELSE Inf
cell7_value == Reciprocal(P_LITERAL)

\* ------------------------------------------------------------ dice source
\* np.random.randint(1, 7, k): any k faces
RandInt(k) == [1..k -> Faces]
\* the rigged source of the test: 1,2,3,4,5,6,1,2,... from position p
RiggedDraws(p, k) == [i \in 1..k |-> ((p + i - 1) % NumFaces) + 1]
Draws(k) == IF rigged THEN {RiggedDraws(pos, k)} ELSE RandInt(k)

\* ---------------------------------------------------------------- roll_dice
roll_size_always_five(prev) == NumDice
roll_size(prev) == NumDice - Len(prev)

\* np.append(previous_roll, new_roll)
roll_dice(prev, new_roll) == prev \o new_roll

\* ------------------------------------------------------- find_what_to_keep
CountOf(s, f) == Cardinality({i \in 1..Len(s) : s[i] = f})

RECURSIVE FirstOccurrences(_, _)
FirstOccurrences(s, seen) ==
    IF s = <<>> THEN <<>>
    ELSE IF Head(s) \in seen THEN FirstOccurrences(Tail(s), seen)
    ELSE <<Head(s)>> \o FirstOccurrences(Tail(s), seen \cup {Head(s)})

\* Counter(roll_list): <<face, count>> pairs in order of first occurrence
Counter(roll_list) ==
    LET fs == FirstOccurrences(roll_list, {})
    IN [i \in 1..Len(fs) |-> <<fs[i], CountOf(roll_list, fs[i])>>]

RECURSIVE SortDesc(_, _)
SortDesc(c, k) ==
    IF k = 0 THEN <<>>
    ELSE SelectSeq(c, LAMBDA e : e[2] = k) \o SortDesc(c, k - 1)

RECURSIVE SumCounts(_)
SumCounts(c) == IF c = <<>> THEN 0 ELSE Head(c)[2] + SumCounts(Tail(c))

\* .most_common(): stable sort by count, highest first (no count exceeds
\* the number of elements counted)
most_common_unsorted(c) == c
most_common(c) == SortDesc(c, SumCounts(c))

RECURSIVE KeepLoop(_, _, _)
KeepLoop(counted, mode_list, count) ==
    IF counted = <<>> THEN <<mode_list, count>>
    ELSE LET die == Head(counted)
         IN IF die[2] >= count
            THEN KeepLoop(Tail(counted), Append(mode_list, die[1]), die[2])
            ELSE KeepLoop(Tail(counted), mode_list, count)

find_what_to_keep(roll_list) ==
    KeepLoop(most_common(Counter(roll_list)), <<>>, 0)

\* ----------------------------------------------- play_one_round_of_yahtzee
WhileCond_no_early_exit(rc, mc) == rc < MaxRolls
WhileCond_two_rolls(rc, mc) == rc < MaxRolls - 1 /\ mc < YahtzeeCount
WhileCond(rc, mc) == rc < MaxRolls /\ mc < YahtzeeCount

KeepFires_on_single(mc) == mc >= 1
KeepFires(mc) == mc > 1

\* roll[np.where(roll == keep)]
KeptDice_first_two(r, k) == SubSeq(SelectSeq(r, LAMBDA d : d = k), 1, 2)
KeptDice(r, k) == SelectSeq(r, LAMBDA d : d = k)

ReturnValue_four_or_more(mc) == IF mc >= YahtzeeCount - 1 THEN 1 ELSE 0
ReturnValue(mc) == IF mc = YahtzeeCount THEN 1 ELSE 0

\* range(n) has a next value after `i` values have been produced
ForHasNext_off_by_one(i, m) == i <= m
ForHasNext(i, m) == i < m

Range(s) == {s[i] : i \in 1..Len(s)}

\* the loop test of line 150, taken after the locals are set up and after
\* each iteration: where control goes next
AfterTest(rc, mc) == IF WhileCond(rc, mc) THEN "roll" ELSE "ret"

Init ==
    /\ n \in (0 - MaxNeg)..MaxN
    /\ it = 0
    /\ yahtzees = <<>>
    /\ p_hat = Unbound
    /\ expected_turns = Unbound
    /\ raised = "none"
    /\ previous_roll = <<>>
    /\ roll = <<>>
    /\ mode_count = 0
    /\ keep = <<>>
    /\ roll_count = 0
    /\ result = <<>>
    /\ rigged \in BOOLEAN
    /\ pos = 0
    /\ pc = "for"

\* for i in range(n): play_one_round_of_yahtzee() is entered, its locals are
\* initialised and the while condition is tested for the first time
ForNext ==
    /\ pc = "for"
    /\ ForHasNext(it, n)
    /\ it' = it + 1
    /\ previous_roll' = <<>>
    /\ roll_count' = 0
    /\ mode_count' = 0
    /\ roll' = <<>>
    /\ keep' = <<>>
    /\ result' = <<>>
    /\ pc' = AfterTest(0, 0)
    /\ UNCHANGED <<n, yahtzees, p_hat, expected_turns, raised, rigged, pos>>

\* the range is exhausted: fall through to np.mean(yahtzees)
ForEnd ==
    /\ pc = "for"
    /\ ~ForHasNext(it, n)
    /\ pc' = "mean"
    /\ UNCHANGED <<estVars, turnVars, rigged, pos>>

\* roll = roll_dice(previous_roll)
Roll ==
    /\ pc = "roll"
    /\ \E new_roll \in Draws(roll_size(previous_roll)) :
          roll' = roll_dice(previous_roll, new_roll)
    /\ pos' = IF rigged THEN (pos + roll_size(previous_roll)) % NumFaces ELSE pos
    /\ pc' = "find"
    /\ UNCHANGED <<estVars, previous_roll, mode_count, keep, roll_count,
                   result, rigged>>

\* to_keep = find_what_to_keep(roll); mode_count = to_keep[1];
\* if mode_count > 1: keep = random.choice(to_keep[0]); previous_roll = ...
\* roll_count += 1; then the while condition is tested again.
\* When the loop continues, the next statement assigns roll before anything
\* reads it, so the value is dropped here; when the loop ends roll stays the
\* last hand rolled.
FindKeep ==
    /\ pc = "find"
    /\ LET to_keep == find_what_to_keep(roll)
       IN /\ mode_count' = to_keep[2]
          /\ IF KeepFires(to_keep[2])
             THEN \E k \in Range(to_keep[1]) :
                     /\ keep' = <<k>>
                     /\ previous_roll' = KeptDice(roll, k)
             ELSE UNCHANGED <<keep, previous_roll>>
    /\ roll_count' = roll_count + 1
    /\ pc' = AfterTest(roll_count', mode_count')
    /\ roll' = IF pc' = "roll" THEN <<>> ELSE roll
    /\ UNCHANGED <<estVars, result, rigged, pos>>

\* if mode_count == 5: return 1 else: return 0
Return ==
    /\ pc = "ret"
    /\ result' = <<ReturnValue(mode_count)>>
    /\ pc' = "append"
    /\ UNCHANGED <<estVars, previous_roll, roll, mode_count, keep, roll_count,
                   rigged, pos>>

\* yahtzees.append(<returned value>); the callee's locals are gone
AppendOutcome ==
    /\ pc = "append"
    /\ yahtzees' = Append(yahtzees, result[1])
    /\ previous_roll' = <<>>
    /\ roll' = <<>>
    /\ mode_count' = 0
    /\ keep' = <<>>
    /\ roll_count' = 0
    /\ result' = <<>>
    /\ pc' = "for"
    /\ UNCHANGED <<n, it, p_hat, expected_turns, raised, rigged, pos>>

\* np.mean(yahtzees)
Mean ==
    /\ pc = "mean"
    /\ p_hat' = np_mean(yahtzees)
    /\ pc' = "cell7"
    /\ UNCHANGED <<n, it, yahtzees, expected_turns, raised, turnVars, rigged, pos>>

\* 1 / 0.046
Cell7 ==
    /\ pc = "cell7"
    /\ expected_turns' = cell7_value
    /\ pc' = "done"
    /\ UNCHANGED <<n, it, yahtzees, p_hat, raised, turnVars, rigged, pos>>

Next ==
    \/ ForNext
    \/ ForEnd
    \/ Roll
    \/ FindKeep
    \/ Return
    \/ AppendOutcome
    \/ Mean
    \/ Cell7

Spec == Init /\ [][Next]_vars

\* ------------------------------------------------------------- properties
\* definitions used only to state the properties
Freqs(h) == {CountOf(h, f) : f \in Faces}
MaxFreq(h) == CHOOSE m \in Freqs(h) : \A k \in Freqs(h) : k <= m
Modes(h) == LET m == MaxFreq(h) IN {f \in Faces : CountOf(h, f) = m}
FiveOfAKind(h) == Len(h) = 5 /\ \A i, j \in 1..Len(h) : h[i] = h[j]
AllDistinct(h) == Len(h) = 5 /\ \A i, j \in 1..Len(h) : h[i] = h[j] => i = j
OneFace(s) == \A i, j \in 1..Len(s) : s[i] = s[j]
InTurn == pc \in {"roll", "find", "ret", "append"}
AfterLoop == pc \in {"mean", "cell7", "done"}
Successes == Cardinality({i \in 1..Len(yahtzees) : yahtzees[i] = 1})
AllFailed == \A i \in 1..Len(yahtzees) : yahtzees[i] = 0

\* C1: the value play_one_round_of_yahtzee returns is 1 exactly when the last
\* hand it rolled is five dice of one face (best mode-count 5), and 0 in
\* every other case.
C1_ReturnIffYahtzee ==
    pc = "append" =>
        /\ result \in {<<0>>, <<1>>}
        /\ (result = <<1>> <=> FiveOfAKind(roll))
        /\ (result = <<1>> <=> MaxFreq(roll) = 5)
C1_Witness == pc = "append" /\ result = <<1>> /\ roll_count = 3

\* C2: a turn makes at least 1 and at most 3 rolls; a roll is only made when
\* fewer than 3 rolls were made; a turn that ends before its third roll ends
\* on a five-of-a-kind hand; and the step that examines a five-of-a-kind
\* hand leaves the loop, so no roll follows it.
C2_State ==
    /\ roll_count \in 0..3
    /\ (pc \in {"roll", "find"} => roll_count < 3)
    /\ (pc \in {"ret", "append"} =>
            /\ roll_count \in 1..3
            /\ (roll_count < 3 => FiveOfAKind(roll)))
C2_Step ==
    (pc = "find" /\ FiveOfAKind(roll)) =>
        (pc' = "ret" /\ roll' = roll /\ roll_count' = roll_count + 1)
C2_RollBounds == []C2_State /\ [][C2_Step]_vars
C2_Witness == pc = "ret" /\ roll_count = 2 /\ FiveOfAKind(roll)

C5_ExactlyNTrials ==
    n > 0 =>
        /\ it \in 0..n
        /\ Len(yahtzees) = (IF InTurn THEN it - 1 ELSE it)
        /\ \A i \in 1..Len(yahtzees) : yahtzees[i] \in {0, 1}
        /\ (AfterLoop => it = n /\ Len(yahtzees) = n)
        /\ (pc \in {"cell7", "done"} =>
                /\ p_hat = Num(Successes, n)
                /\ 0 <= Successes /\ Successes <= n)
C5_Witness ==
    /\ n = MaxN /\ pc = "done" /\ it = n
    /\ p_hat = Num(1, n) /\ yahtzees[n] = 1

\* C6: with the source that cycles 1,2,3,4,5,6,1,... every hand has five
\* distinct faces, no die is ever kept, every turn makes all three rolls and
\* returns 0.
C6_RiggedCycleFails ==
    rigged =>
        /\ previous_roll = <<>>
        /\ keep = <<>>
        /\ (roll # <<>> => AllDistinct(roll))
        /\ (pc \in {"ret", "append"} => roll_count = 3)
        /\ (pc = "append" => result = <<0>>)
        /\ AllFailed
C6_Witness ==
    rigged /\ pc = "append" /\ result = <<0>> /\ roll_count = 3 /\ AllDistinct(roll)

\* C7: whenever the keep step fires on a hand, the kept dice all show the
\* chosen face, that face attains the hand's maximum frequency, and the kept
\* dice are exactly as many as the dice of the hand showing that face.
C7_Step ==
    (pc = "find" /\ mode_count' > 1) =>
        /\ Len(keep') = 1
        /\ \A i \in 1..Len(previous_roll') : previous_roll'[i] = keep'[1]
        /\ keep'[1] \in Modes(roll)
        /\ Len(previous_roll') = CountOf(roll, keep'[1])
        /\ Len(previous_roll') = MaxFreq(roll)
C7_KeepExactlyTheMatching == [][C7_Step]_vars
C7_Witness ==
    /\ pc = "ret" /\ roll_count = 3 /\ mode_count = 2
    /\ Cardinality(Modes(roll)) = 2
    /\ Len(previous_roll) = 2 /\ previous_roll[1] = keep[1]
    /\ CountOf(roll, keep[1]) = 2

\* C8: for every hand of 5 dice, find_what_to_keep returns the maximum
\* frequency as count and, as mode list, each face attaining that maximum
\* exactly once and no other face.
C8_ModeListExact ==
    Len(roll) = NumDice =>
        LET r == find_what_to_keep(roll)
        IN /\ r[2] = MaxFreq(roll)
           /\ Range(r[1]) = Modes(roll)
           /\ Len(r[1]) = Cardinality(Modes(roll))
C8_Witness ==
    pc = "ret" /\ roll = <<1, 2, 2, 3, 3>> /\ mode_count = 2 /\ keep = <<3>>

\* C9: on a hand with five distinct faces the keep step does not fire: no
\* face is chosen, the kept set stays as it was, and it is empty, so the next
\* roll draws all five dice.
C9_Step ==
    (pc = "find" /\ AllDistinct(roll)) =>
        /\ keep' = keep
        /\ previous_roll' = previous_roll
        /\ previous_roll' = <<>>
        /\ mode_count' = 1
C9_NoPairKeepsNothing == [][C9_Step]_vars
C9_Witness ==
    /\ pc = "roll" /\ roll_count = 2 /\ mode_count = 1
    /\ previous_roll = <<>> /\ keep = <<>>

\* C10: the kept set is empty or 2..5 dice of one face; a hand has exactly 5
\* dice in 1..6, the kept dice first and unchanged, then 5 - |kept| fresh
\* dice; the number of kept dice never decreases during a turn.
C10_State ==
    /\ (previous_roll = <<>> \/ (Len(previous_roll) \in 2..5 /\ OneFace(previous_roll)))
    /\ (roll = <<>> \/ (Len(roll) = 5 /\ \A i \in 1..5 : roll[i] \in 1..6))
    /\ (pc = "find" => SubSeq(roll, 1, Len(previous_roll)) = previous_roll)
C10_Step == pc = "find" => Len(previous_roll') >= Len(previous_roll)
C10_KeptGrows == []C10_State /\ [][C10_Step]_vars
C10_Witness ==
    /\ pc = "find" /\ roll_count = 1 /\ Len(previous_roll) = 3
    /\ roll[4] # roll[1] /\ roll[5] = roll[1]

====
